---- MODULE Spec2Model ----
(***************************************************************************)
(* dmd-play: rendering of images and text into RGB565 frame buffers for a  *)
(* dot-matrix display, the scroll animation built from an over-wide text,  *)
(* and the framing of every buffer on the TCP stream.                      *)
(*                                                                         *)
(* Rasters are records [width, height, px] with px a function from         *)
(* <<x, y>> to a pixel <<r, g, b, a>>.  The font engine and the Lanczos    *)
(* resampler are outside the repository: what they return is an input of   *)
(* the call, held in args.                                                 *)
(***************************************************************************)
EXTENDS Integers, Sequences, FiniteSets, TLC

VARIABLES
    pc,               \* position of the program
    args,             \* parameters of the call being executed
    ret,              \* value the call returned
    wire,             \* chunks written to the TCP stream so far, in order
    frames_dmd,       \* play_animation: the frames
    frames_duration,  \* play_animation: their durations
    n,                \* play_animation: index of the next frame
    played,           \* play_animation: index and pause of every frame sent
    locals            \* send_image_text: its local variables

vars == <<pc, args, ret, wire, frames_dmd, frames_duration, n, played, locals>>

\* the variables a call of a pure function leaves alone
prog == <<wire, frames_dmd, frames_duration, n, played, locals>>

None == "none"

(***************************** bounds **************************************)
MaxDmdWidth == 3
MaxDmdHeight == 3
MaxImgWidth == 3
MaxImgHeight == 3
ExhaustivePixels == 4
MaxTextDmdWidth == 2
MaxTextDmdHeight == 2
MaxChunks == 6
MaxFitImg == 4
MaxFitBox == 4
MaxClockSeconds == 4
MaxCopySrc == 2
MaxCopyDst == 2
MaxCopyOffset == 3
MaxComposeLines == 3
MaxComposeWidth == 3
MaxComposeHeight == 5
MaxSpacing == 2

(************************ machine arithmetic *******************************)
(* The model checker's integers are 32-bit signed.  A u32 value below 2^31 *)
(* is itself; a u32 value v >= 2^31, which only a wrapped subtraction      *)
(* produces here, is held as v - 2^32 (its two's complement), so that      *)
(* wrapping addition and subtraction are the integer ones.                 *)
RECURSIVE Pow2(_)
Pow2(k) == IF k = 0 THEN 1 ELSE 2 * Pow2(k - 1)

U16 == Pow2(16)

\* i32::MAX = 2^31 - 1
I32Max == 2147483647

\* x >> k on an unsigned value
Shr(x, k) == x \div Pow2(k)

\* x << k on a u16: the bits shifted out are lost
Shl16(x, k) == (x * Pow2(k)) % U16

\* a | b, bit by bit
RECURSIVE BitOr(_, _)
BitOr(a, b) ==
    IF a = 0 THEN b
    ELSE IF b = 0 THEN a
    ELSE (IF a % 2 = 1 \/ b % 2 = 1 THEN 1 ELSE 0) + 2 * BitOr(a \div 2, b \div 2)

\* u16::to_be_bytes
to_be_bytes16(v) == << v \div 256, v % 256 >>

\* u32::to_be_bytes
to_be_bytes32(v) ==
    << v \div Pow2(24), (v \div Pow2(16)) % 256, (v \div 256) % 256, v % 256 >>

\* a - b on u32 panics: a build with overflow checks panics when a < b
SubU32Panics(a, b, overflow_checks) == a < b /\ overflow_checks

\* a - b on u32 when it does not panic: a build without overflow checks
\* wraps modulo 2^32
SubU32(a, b) == a - b

\* v / d on u32, d >= 2 when v is a wrapped value:
\* 2^32 + v = 2 * I32Max + 2 + v
DivU32(v, d) ==
    IF v >= 0 THEN v \div d
    ELSE 2 * (I32Max \div d) + ((2 * (I32Max % d) + 2 + v) \div d)

(***************************** rasters *************************************)
TextAligns == {"CENTER", "LEFT", "RIGHT"}

Coords(w, h) == (0 .. (w - 1)) \X (0 .. (h - 1))

\* all rasters of the given size with pixels drawn from palette
Rasters(w, h, palette) ==
    { [width |-> w, height |-> h, px |-> f] : f \in [Coords(w, h) -> palette] }

\* RgbaImage::new: every pixel (0, 0, 0, 0)
RgbaImage_new(w, h) ==
    [width |-> w, height |-> h, px |-> [p \in Coords(w, h) |-> <<0, 0, 0, 0>>]]

get_pixel(img, x, y) == img.px[<<x, y>>]

\* imageops::resize / resize_exact: a copy when the size does not change,
\* otherwise the resampler's answer, cut to the size asked for
imageops_resize(img, nwidth, nheight, resampled) ==
    IF nwidth = img.width /\ nheight = img.height THEN img
    ELSE [width |-> nwidth, height |-> nheight,
          px |-> [p \in Coords(nwidth, nheight) |-> resampled.px[p]]]

\* nothing sent, no animation, send_image_text not entered
NoProgram ==
    /\ wire = << >>
    /\ frames_dmd = << >>
    /\ frames_duration = << >>
    /\ n = 0
    /\ played = << >>
    /\ locals = [computed |-> FALSE, should_animate |-> FALSE, new_width |-> 0,
                 builds |-> BOOLEAN, path |-> "none", built |-> FALSE,
                 start |-> 0, real_width |-> 0, img |-> RgbaImage_new(0, 0),
                 fonts |-> << >>]

(***************************** colours *************************************)
rgb888_to_rgb565_shift_g6(r, g, b) ==
    LET r5 == Shr(r, 3)
        g6 == Shr(g, 2)
        b5 == Shr(b, 3)
    IN  BitOr(BitOr(Shl16(r5, 11), Shl16(g6, 4)), b5)

rgb888_to_rgb565(r, g, b) ==
    LET r5 == Shr(r, 3)
        g6 == Shr(g, 2)
        b5 == Shr(b, 3)
    IN  BitOr(BitOr(Shl16(r5, 11), Shl16(g6, 5)), b5)

\* 8-bit channel values the colour checks run over: both ends, and the
\* values around every shift boundary
ByteSamples ==
    {0, 1, 3, 4, 7, 8, 15, 16, 31, 32, 63, 64, 127, 128, 247, 248, 251, 252, 254, 255}

(*************************** SpecRgb ***************************************)
InitRgb ==
    /\ pc = "rgb_call"
    /\ args \in [r : ByteSamples, g : ByteSamples, b : ByteSamples]
    /\ ret = None
    /\ NoProgram

CallRgb ==
    /\ pc = "rgb_call"
    /\ ret' = rgb888_to_rgb565(args.r, args.g, args.b)
    /\ pc' = "rgb_done"
    /\ UNCHANGED <<args, prog>>

NextRgb == CallRgb

SpecRgb == InitRgb /\ [][NextRgb]_vars

\* C2: for every 8-bit (r, g, b) the value rgb888_to_rgb565 returns is a
\* 16-bit value whose top 5 bits are r>>3, whose middle 6 bits are g>>2 and
\* whose low 5 bits are b>>3; since each field is read back unchanged, no
\* field overlaps another.
C2_Rgb565Fields ==
    pc = "rgb_done" =>
        /\ ret \in 0 .. (U16 - 1)
        /\ ret \div 2048 = args.r \div 8
        /\ (ret \div 32) % 64 = args.g \div 4
        /\ ret % 32 = args.b \div 8

C2_Witness ==
    /\ pc = "rgb_done"
    /\ args.r = 255 /\ args.g = 3 /\ args.b = 8
    /\ ret = 63489

(*************************** frame encoder *********************************)

\* the sizes of the model are far below 2^32: the product does not wrap
get_dmd_buffer_size(width, height) == width * height * 3

\* the size image2dmdimage resizes orig_img to
FitSize(orig_width, orig_height, dmd_width, dmd_height) ==
    IF orig_width * dmd_height < dmd_width * orig_height
    THEN << (orig_width * dmd_height) \div orig_height, dmd_height >>
    ELSE << dmd_width, (orig_height * dmd_width) \div orig_width >>

XOffset_left(text_align, dmd_width, width) == 0

XOffset(text_align, dmd_width, width) ==
    CASE text_align = "CENTER" -> (dmd_width - width) \div 2
      [] text_align = "LEFT" -> 0
      [] text_align = "RIGHT" -> dmd_width - width

\* the two nested loops of image2dmdimage, pixel k = y * dmd_width + x
RECURSIVE WritePixels(_, _, _, _, _, _, _)
WritePixels(bytes, k, resized_img, dmd_width, dmd_height, x_offset, y_offset) ==
    IF k >= dmd_width * dmd_height THEN bytes
    ELSE
        LET y == k \div dmd_width
            x == k % dmd_width
            idx == ((y * dmd_width) + x) * 2
            inside == /\ y >= y_offset /\ y < resized_img.height + y_offset
                      /\ x >= x_offset /\ x < resized_img.width + x_offset
            pixel == get_pixel(resized_img, x - x_offset, y - y_offset)
            val == rgb888_to_rgb565(pixel[1], pixel[2], pixel[3])
            be == to_be_bytes16(val)
            written == IF inside
                       THEN [bytes EXCEPT ![idx + 1] = be[1], ![idx + 2] = be[2]]
                       ELSE bytes
        IN  WritePixels(written, k + 1, resized_img, dmd_width, dmd_height,
                        x_offset, y_offset)

image2dmdimage(orig_img, text_align, dmd_width, dmd_height, resampled) ==
    LET new_size == FitSize(orig_img.width, orig_img.height, dmd_width, dmd_height)
        resized_img == imageops_resize(orig_img, new_size[1], new_size[2], resampled)
        bytes == [i \in 1 .. get_dmd_buffer_size(dmd_width, dmd_height) |-> 0]
        x_offset == XOffset(text_align, dmd_width, resized_img.width)
        y_offset == (dmd_height - resized_img.height) \div 2
    IN  WritePixels(bytes, 0, resized_img, dmd_width, dmd_height, x_offset, y_offset)

\* pixel values the encoder checks run over
EncPalette == { <<0, 0, 0, 255>>, <<255, 0, 0, 0>>, <<8, 4, 8, 255>> }

EncColour(i) == CASE i = 0 -> <<0, 0, 0, 255>>
                  [] i = 1 -> <<255, 0, 0, 0>>
                  [] i = 2 -> <<8, 4, 8, 255>>

\* the rasters of a given size the encoder checks run over: every raster
\* over EncPalette up to ExhaustivePixels pixels; above, the rasters
\* striped so that any two neighbouring pixels differ, and the plain ones
Contents(w, h) ==
    IF w * h <= ExhaustivePixels THEN Rasters(w, h, EncPalette)
    ELSE { [width |-> w, height |-> h,
            px |-> [p \in Coords(w, h) |-> EncColour((p[1] * k + 2 * p[2] + seed) % 3)]]
           : k \in {0, 1}, seed \in 0 .. 2 }

(*************************** SpecEnc ***************************************)
\* The image file decoders hand image2dmdimage a raster of any size; when
\* the fitted size differs from it the pixels encoded are the resampler's.
EncInputs ==
    { a \in [orig_width : 1 .. MaxImgWidth, orig_height : 1 .. MaxImgHeight,
             dmd_width : 1 .. MaxDmdWidth, dmd_height : 1 .. MaxDmdHeight,
             text_align : TextAligns] : TRUE }

InitEnc ==
    /\ pc = "enc_call"
    /\ \E a \in EncInputs :
          LET fit == FitSize(a.orig_width, a.orig_height, a.dmd_width, a.dmd_height)
              same == fit = <<a.orig_width, a.orig_height>>
          IN  \E content \in Contents(fit[1], fit[2]) :
                 args = [orig_img |-> IF same THEN content
                                      ELSE RgbaImage_new(a.orig_width, a.orig_height),
                         resampled |-> content,
                         text_align |-> a.text_align,
                         dmd_width |-> a.dmd_width,
                         dmd_height |-> a.dmd_height]
    /\ ret = None
    /\ NoProgram

CallEnc ==
    /\ pc = "enc_call"
    /\ ret' = image2dmdimage(args.orig_img, args.text_align, args.dmd_width,
                             args.dmd_height, args.resampled)
    /\ pc' = "enc_done"
    /\ UNCHANGED <<args, prog>>

NextEnc == CallEnc

SpecEnc == InitEnc /\ [][NextEnc]_vars

\* C1: for every display width and height the buffer image2dmdimage
\* returns is exactly width * height * 2 bytes long.
C1_BufferLenIsTwoBytesPerPixel ==
    pc = "enc_done" => Len(ret) = args.dmd_width * args.dmd_height * 2

\* the raster image2dmdimage encodes, and where it places it
EncPlaced == FitSize(args.orig_img.width, args.orig_img.height,
                     args.dmd_width, args.dmd_height)
EncXOff ==
    CASE args.text_align = "CENTER" -> (args.dmd_width - EncPlaced[1]) \div 2
      [] args.text_align = "LEFT" -> 0
      [] args.text_align = "RIGHT" -> args.dmd_width - EncPlaced[1]
EncYOff == (args.dmd_height - EncPlaced[2]) \div 2
EncInRegion(x, y) ==
    /\ EncXOff <= x /\ x < EncXOff + EncPlaced[1]
    /\ EncYOff <= y /\ y < EncYOff + EncPlaced[2]

\* C3: in the buffer image2dmdimage returns, the pixel placed at display
\* position (x, y) is stored big-endian in the two bytes at offset
\* (y * dispW + x) * 2, and every byte that belongs to no pixel of the
\* placed region is zero.
C3_PlacedPixelsBigEndianRestZero ==
    pc = "enc_done" =>
        \A i \in 1 .. Len(ret) :
            LET p == (i - 1) \div 2
                x == p % args.dmd_width
                y == p \div args.dmd_width
            IN  IF y < args.dmd_height /\ EncInRegion(x, y)
                THEN LET pixel == args.resampled.px[<<x - EncXOff, y - EncYOff>>]
                         v == (pixel[1] \div 8) * 2048 + (pixel[2] \div 4) * 32
                                 + (pixel[3] \div 8)
                     IN  ret[i] = IF (i - 1) % 2 = 0 THEN v \div 256 ELSE v % 256
                ELSE ret[i] = 0

C3_Witness ==
    /\ pc = "enc_done"
    /\ args.dmd_width = 3 /\ args.dmd_height = 3
    /\ args.text_align = "CENTER"
    /\ args.orig_img.width = 1 /\ args.orig_img.height = 3
    /\ \A y \in 0 .. 2 : args.resampled.px[<<0, y>>] = <<8, 4, 8, 255>>
    /\ ret[3] = 8 /\ ret[4] = 33 /\ ret[1] = 0 /\ ret[5] = 0

(****************************** f32 ****************************************)
(* An f32 quotient of two u32 is held as the pair [num, den]: den = 0 is   *)
(* +inf when num > 0 and NaN when num = 0.  Comparisons are the IEEE ones  *)
(* on the exact quotients; the rounding of f32 is not modelled.            *)
Ratio(num, den) == [num |-> num, den |-> den]

IsNaN(q) == q.den = 0 /\ q.num = 0
IsInf(q) == q.den = 0 /\ q.num > 0

\* a > b
FGt(a, b) ==
    IF IsNaN(a) \/ IsNaN(b) THEN FALSE
    ELSE IF IsInf(a) THEN ~IsInf(b)
    ELSE IF IsInf(b) THEN FALSE
    ELSE a.num * b.den > b.num * a.den

\* a >= b
FGe(a, b) ==
    IF IsNaN(a) \/ IsNaN(b) THEN FALSE
    ELSE IF IsInf(a) THEN TRUE
    ELSE IF IsInf(b) THEN FALSE
    ELSE a.num * b.den >= b.num * a.den

\* q * 3.0
Times3(q) == Ratio(3 * q.num, q.den)

\* u32::MAX, which a saturating cast gives; it also stands for every
\* product above i32::MAX, which no later step of the model computes with
U32Max == -1

\* (a as f32 * q) as u32: NaN casts to 0, the cast saturates
MulRatioU32(a, q) ==
    IF q.den = 0 THEN (IF q.num = 0 \/ a = 0 THEN 0 ELSE U32Max)
    ELSE IF q.num = 0 \/ a = 0 THEN 0
    ELSE LET whole == a \div q.den
             rest == a % q.den
         IN  IF whole > (I32Max \div q.num) - 1 THEN U32Max
             ELSE whole * q.num + ((rest * q.num) \div q.den)

GtU32_signed(a, b) == a > b

\* a > b on u32
GtU32(a, b) ==
    IF a < 0 /\ b < 0 THEN a > b
    ELSE IF b < 0 THEN FALSE
    ELSE IF a < 0 THEN TRUE
    ELSE a > b

(*************************** copy_image ************************************)
I32Min == -I32Max - 1

\* a + b on i32 overflows
AddI32Overflows(a, b) ==
    \/ (b > 0 /\ a > I32Max - b)
    \/ (b < 0 /\ a < I32Min - b)

\* a + b on i32 when it does not panic: a build without overflow checks
\* wraps modulo 2^32
AddI32(a, b) ==
    IF b > 0 /\ a > I32Max - b THEN (a - I32Max - 1) + (b - I32Max - 1)
    ELSE IF b < 0 /\ a < I32Min - b THEN (a + I32Max + 1) + (b + I32Max + 1)
    ELSE a + b

\* the condition of copy_image panics at source pixel (x, y) in a build with
\* overflow checks: x + x_offset overflows, or y + y_offset does once the
\* two tests on x + x_offset have passed
CopyPanicsAt(x, y, width_dst, x_offset, y_offset) ==
    \/ AddI32Overflows(x, x_offset)
    \/ /\ x + x_offset >= 0
       /\ x + x_offset < width_dst
       /\ AddI32Overflows(y, y_offset)

\* copy_image panics at some source pixel
copy_image_panics(img_src, img_dst, x_offset, y_offset, overflow_checks) ==
    /\ overflow_checks
    /\ \E p \in Coords(img_src.width, img_src.height) :
          CopyPanicsAt(p[1], p[2], img_dst.width, x_offset, y_offset)

\* the two nested loops of copy_image, source pixel k = y * width_src + x
RECURSIVE CopyPixels(_, _, _, _, _, _, _)
CopyPixels(dst_px, k, img_src, width_dst, height_dst, x_offset, y_offset) ==
    IF k >= img_src.width * img_src.height THEN dst_px
    ELSE
        LET y == k \div img_src.width
            x == k % img_src.width
            inside == /\ AddI32(x, x_offset) >= 0
                      /\ AddI32(x, x_offset) < width_dst
                      /\ AddI32(y, y_offset) >= 0
                      /\ AddI32(y, y_offset) < height_dst
            put == IF inside
                   THEN [dst_px EXCEPT ![<<AddI32(x, x_offset),
                                           AddI32(y, y_offset)>>] =
                                           get_pixel(img_src, x, y)]
                   ELSE dst_px
        IN  CopyPixels(put, k + 1, img_src, width_dst, height_dst, x_offset,
                       y_offset)

copy_image(img_src, img_dst, x_offset, y_offset) ==
    [img_dst EXCEPT !.px = CopyPixels(img_dst.px, 0, img_src, img_dst.width,
                                      img_dst.height, x_offset, y_offset)]

(*************************** SpecCopy **************************************)
\* the source raster of the given size: pixel (x, y) holds its own place
PlaceRaster(w, h) ==
    [width |-> w, height |-> h,
     px |-> [p \in Coords(w, h) |-> <<p[1] + 1, p[2] + 1, 0, 255>>]]

\* the pixel the destination holds before the call
DstPixel == <<9, 9, 9, 9>>

DstRaster(w, h) ==
    [width |-> w, height |-> h, px |-> [p \in Coords(w, h) |-> DstPixel]]

\* the i32 offsets of a call: the small ones of either sign, and the ends
\* of the type
CopyOffsets ==
    ((-MaxCopyOffset) .. MaxCopyOffset) \cup {I32Min, I32Max - 1, I32Max}

InitCopy ==
    /\ pc = "copy_call"
    /\ \E width_src \in 0 .. MaxCopySrc, height_src \in 0 .. MaxCopySrc,
          width_dst \in 0 .. MaxCopyDst, height_dst \in 0 .. MaxCopyDst,
          x_offset \in CopyOffsets, y_offset \in CopyOffsets :
          args = [img_src |-> PlaceRaster(width_src, height_src),
                  img_dst |-> DstRaster(width_dst, height_dst),
                  x_offset |-> x_offset, y_offset |-> y_offset]
    /\ ret = None
    /\ NoProgram

CallCopy ==
    /\ pc = "copy_call"
    /\ \E overflow_checks \in BOOLEAN :
          ret' = IF copy_image_panics(args.img_src, args.img_dst, args.x_offset,
                                      args.y_offset, overflow_checks)
                 THEN [status |-> "panic", img_dst |-> args.img_dst]
                 ELSE [status |-> "ok",
                       img_dst |-> copy_image(args.img_src, args.img_dst,
                                              args.x_offset, args.y_offset)]
    /\ pc' = "copy_done"
    /\ UNCHANGED <<args, prog>>

NextCopy == CallCopy

SpecCopy == InitCopy /\ [][NextCopy]_vars

\* the source pixels whose shifted position is the destination pixel p
C21_SourcesOf(p) ==
    { q \in Coords(args.img_src.width, args.img_src.height) :
        /\ ~AddI32Overflows(q[1], args.x_offset)
        /\ ~AddI32Overflows(q[2], args.y_offset)
        /\ q[1] + args.x_offset = p[1]
        /\ q[2] + args.y_offset = p[2] }

\* the destination after the call: the size it had, the source pixel at
\* every shifted position inside it, the pixel it had everywhere else
C21_Effect ==
    /\ ret.img_dst.width = args.img_dst.width
    /\ ret.img_dst.height = args.img_dst.height
    /\ DOMAIN ret.img_dst.px = Coords(args.img_dst.width, args.img_dst.height)
    /\ \A p \in Coords(args.img_dst.width, args.img_dst.height) :
          IF C21_SourcesOf(p) # {}
          THEN \A q \in C21_SourcesOf(p) :
                  ret.img_dst.px[p] = get_pixel(args.img_src, q[1], q[2])
          ELSE ret.img_dst.px[p] = args.img_dst.px[p]

resize_image_to_fit_right_is_left(img, width, height, text_align, resampled) ==
    LET width_img == img.width
        height_img == img.height
        new_img == RgbaImage_new(width, height)
    IN  IF width = width_img /\ height = height_img THEN <<img, 0, width>>
        ELSE IF FGt(Ratio(width_img, height_img), Ratio(width, height))
        THEN LET new_width == width
                 new_height == (height_img * new_width) \div width_img
                 reduced_img == imageops_resize(img, new_width, new_height, resampled)
             IN  << copy_image(reduced_img, new_img, 0, (height - new_height) \div 2),
                    0, new_width >>
        ELSE LET new_height == height
                 new_width == IF height_img = 0 THEN 0
                              ELSE (width_img * new_height) \div height_img
                 reduced_img == imageops_resize(img, new_width, new_height, resampled)
                 align_x == CASE text_align = "CENTER" -> (width - new_width) \div 2
                              [] text_align = "LEFT" -> 0
                              [] text_align = "RIGHT" -> 0
             IN  << copy_image(reduced_img, new_img, align_x, 0), align_x, new_width >>

\* returns <<raster, start, placed width>>
resize_image_to_fit(img, width, height, text_align, resampled) ==
    LET width_img == img.width
        height_img == img.height
        new_img == RgbaImage_new(width, height)
    IN  IF width = width_img /\ height = height_img THEN <<img, 0, width>>
        ELSE IF FGt(Ratio(width_img, height_img), Ratio(width, height))
        THEN LET new_width == width
                 new_height == (height_img * new_width) \div width_img
                 reduced_img == imageops_resize(img, new_width, new_height, resampled)
             IN  << copy_image(reduced_img, new_img, 0, (height - new_height) \div 2),
                    0, new_width >>
        ELSE LET new_height == height
                 new_width == IF height_img = 0 THEN 0
                              ELSE (width_img * new_height) \div height_img
                 reduced_img == imageops_resize(img, new_width, new_height, resampled)
                 align_x == CASE text_align = "CENTER" -> (width - new_width) \div 2
                              [] text_align = "LEFT" -> 0
                              [] text_align = "RIGHT" -> width - new_width
             IN  << copy_image(reduced_img, new_img, align_x, 0), align_x, new_width >>

(*************************** apply_gradient ********************************)
MinValue == 15
MaxAlpha == 245

GradientPixel_gradient_alpha(img_pixel, gradient_pixel) ==
    IF (img_pixel[1] > MinValue \/ img_pixel[2] > MinValue \/ img_pixel[3] > MinValue)
          /\ img_pixel[4] < MaxAlpha
    THEN gradient_pixel
    ELSE << 0, 0, 0, 0 >>

GradientPixel_or(img_pixel, gradient_pixel) ==
    IF (img_pixel[1] > MinValue \/ img_pixel[2] > MinValue \/ img_pixel[3] > MinValue)
          \/ img_pixel[4] < MaxAlpha
    THEN << gradient_pixel[1], gradient_pixel[2], gradient_pixel[3], img_pixel[4] >>
    ELSE << 0, 0, 0, 0 >>

\* the pixel apply_gradient writes for a pixel inside the gradient's extent
GradientPixel(img_pixel, gradient_pixel) ==
    IF (img_pixel[1] > MinValue \/ img_pixel[2] > MinValue \/ img_pixel[3] > MinValue)
          /\ img_pixel[4] < MaxAlpha
    THEN << gradient_pixel[1], gradient_pixel[2], gradient_pixel[3], img_pixel[4] >>
    ELSE << 0, 0, 0, 0 >>

apply_gradient(img, gradient) ==
    [width |-> img.width, height |-> img.height,
     px |-> [p \in Coords(img.width, img.height) |->
               IF p[1] < gradient.width /\ p[2] < gradient.height
               THEN GradientPixel(get_pixel(img, p[1], p[2]),
                                  get_pixel(gradient, p[1], p[2]))
               ELSE << 0, 0, 0, 0 >>]]

(*************************** SpecGrad **************************************)
\* rendered pixel values around both thresholds of apply_gradient
GradPalette ==
    { <<0, 0, 0, 0>>, <<0, 0, 0, 255>>, <<255, 0, 0, 0>>, <<16, 0, 0, 244>>,
      <<15, 15, 15, 0>>, <<0, 16, 0, 245>>, <<0, 0, 200, 128>> }

GradColours == { <<0, 0, 0, 255>>, <<10, 200, 30, 255>>, <<255, 255, 255, 7>> }

\* rasters that hold colour c at pixel probe and colour d elsewhere
TwoColourRasters(w, h, palette) ==
    { [width |-> w, height |-> h,
       px |-> [p \in Coords(w, h) |-> IF p = probe THEN c ELSE d]]
      : probe \in Coords(w, h), c \in palette, d \in palette }

InitGrad ==
    /\ pc = "grad_call"
    /\ \E w \in 1 .. MaxImgWidth, h \in 1 .. MaxImgHeight,
          gw \in 1 .. MaxImgWidth, gh \in 1 .. MaxImgHeight, g \in GradColours :
          \E img \in TwoColourRasters(w, h, GradPalette) :
             args = [img |-> img,
                     gradient |-> [width |-> gw, height |-> gh,
                                   px |-> [p \in Coords(gw, gh) |-> g]]]
    /\ ret = None
    /\ NoProgram

CallGrad ==
    /\ pc = "grad_call"
    /\ ret' = apply_gradient(args.img, args.gradient)
    /\ pc' = "grad_done"
    /\ UNCHANGED <<args, prog>>

NextGrad == CallGrad

SpecGrad == InitGrad /\ [][NextGrad]_vars

\* C9: apply_gradient maps every rendered pixel with alpha 0 and RGB
\* (0, 0, 0) to the fully transparent pixel (0, 0, 0, 0), whatever the
\* gradient raster holds at that coordinate.
C9_TransparentStaysTransparent ==
    pc = "grad_done" =>
        /\ ret.width = args.img.width /\ ret.height = args.img.height
        /\ \A p \in Coords(args.img.width, args.img.height) :
              args.img.px[p] = <<0, 0, 0, 0>> => ret.px[p] = <<0, 0, 0, 0>>

C9_Witness ==
    /\ pc = "grad_done"
    /\ args.img.width = 2 /\ args.img.height = 1
    /\ args.gradient.width = 2
    /\ args.gradient.px[<<0, 0>>] = <<10, 200, 30, 255>>
    /\ args.img.px[<<0, 0>>] = <<0, 0, 0, 0>>
    /\ args.img.px[<<1, 0>>] = <<255, 0, 0, 0>>
    /\ ret.px[<<0, 0>>] = <<0, 0, 0, 0>>
    /\ ret.px[<<1, 0>>] = <<10, 200, 30, 0>>

\* the gradient's RGB with the rendered pixel's own alpha
C14_Recoloured(p) ==
    << args.gradient.px[p][1], args.gradient.px[p][2], args.gradient.px[p][3],
       args.img.px[p][4] >>

C14_InExtent(p) == p[1] < args.gradient.width /\ p[2] < args.gradient.height

\* C14, as claimed: apply_gradient recolours a pixel inside the gradient's
\* extent (gradient RGB, the pixel's own alpha) exactly when one of its R, G,
\* B channels exceeds 15 OR its alpha is below 245; every other pixel, and
\* every pixel outside the gradient's extent, becomes (0, 0, 0, 0).
C14_RecolouredWhenInkOrTranslucent ==
    pc = "grad_done" =>
        \A p \in Coords(args.img.width, args.img.height) :
            LET px == args.img.px[p]
            IN  ret.px[p] =
                    IF C14_InExtent(p)
                       /\ ((px[1] > 15 \/ px[2] > 15 \/ px[3] > 15) \/ px[4] < 245)
                    THEN C14_Recoloured(p)
                    ELSE <<0, 0, 0, 0>>

\* C14, amended: apply_gradient recolours a pixel inside the gradient's
\* extent (gradient RGB, the pixel's own alpha) exactly when one of its R, G,
\* B channels exceeds 15 AND its alpha is below 245; every other pixel, and
\* every pixel outside the gradient's extent, becomes (0, 0, 0, 0).
C14_RecolouredWhenInkAndTranslucent ==
    pc = "grad_done" =>
        \A p \in Coords(args.img.width, args.img.height) :
            LET px == args.img.px[p]
            IN  ret.px[p] =
                    IF C14_InExtent(p)
                       /\ ((px[1] > 15 \/ px[2] > 15 \/ px[3] > 15) /\ px[4] < 245)
                    THEN C14_Recoloured(p)
                    ELSE <<0, 0, 0, 0>>

C14_Witness ==
    /\ pc = "grad_done"
    /\ args.img.width = 3 /\ args.img.height = 1
    /\ args.gradient.width = 2
    /\ args.gradient.px[<<0, 0>>] = <<10, 200, 30, 255>>
    /\ args.img.px[<<0, 0>>] = <<16, 0, 0, 244>>
    /\ args.img.px[<<1, 0>>] = <<0, 16, 0, 245>>
    /\ args.img.px[<<2, 0>>] = <<0, 16, 0, 245>>
    /\ ret.px[<<0, 0>>] = <<10, 200, 30, 244>>
    /\ ret.px[<<1, 0>>] = <<0, 0, 0, 0>>
    /\ ret.px[<<2, 0>>] = <<0, 0, 0, 0>>

(************************** text rendering *********************************)
(* A line of text is what the font engine and crop_width_right make of it  *)
(* at the scale of the section it is drawn into: genwidth x genheight is   *)
(* the raster get_text_width and get_text_height size, cropwidth its width *)
(* once crop_width_right has cut the columns right of the last inked one.  *)
(* font is the number of reads of the font file that succeed before one    *)
(* fails, FontOk when none fails.                                          *)
FontOk == -1

FontReadOk(font, k) == font = FontOk \/ k <= font

\* the most pixels a raster allocation can hold
MaxAllocPixels == 1000000

\* RgbaImage::new / from_pixel of this size exhausts the memory
TooLarge(w, h) ==
    \/ w < 0
    \/ h < 0
    \/ (w > 0 /\ h > MaxAllocPixels \div w)

\* at scale 0 every glyph is empty
Measure(line, height) ==
    IF height = 0 THEN [genwidth |-> 0, genheight |-> 0, cropwidth |-> 0]
    ELSE line

\* the pixels the font engine, or the resampler after it, gives a line:
\* ink all over
LineRaster(w, h, text_color) ==
    [width |-> w, height |-> h, px |-> [p \in Coords(w, h) |-> text_color]]

generate_text_image_single_line(line, font_ok, width, height, background_color, text_color, text_align) ==
    LET m == Measure(line, height)
    IN  IF ~font_ok THEN [status |-> "err"]
        ELSE IF TooLarge(m.genwidth, m.genheight) THEN [status |-> "abort"]
        ELSE IF TooLarge(width, height) THEN [status |-> "abort"]
        ELSE LET dyn_img == LineRaster(m.cropwidth, m.genheight, text_color)
                 fit == resize_image_to_fit(dyn_img, width, height, text_align,
                                            LineRaster(width, height, text_color))
             IN  [status |-> "ok", img |-> fit[1], start |-> fit[2],
                  width |-> fit[3]]

\* vertical offset of line k (n in the source):
\* section_height as i32 * n + n * line_spacing as i32

LineOffset(section_height, k, line_spacing) ==
    section_height * k + k * line_spacing

\* the loop of generate_text_image over the lines, from line k (0-based)
RECURSIVE ComposeLines(_, _, _, _, _, _, _, _, _, _)
ComposeLines(acc, k, lines, font, width, section_height, background_color, text_color, text_align, line_spacing) ==
    IF k >= Len(lines) THEN acc
    ELSE
        LET r == generate_text_image_single_line(lines[k + 1], FontReadOk(font, k + 1),
                     width, section_height, background_color, text_color, text_align)
        IN  IF r.status # "ok" THEN [acc EXCEPT !.status = r.status]
            ELSE
                LET y == LineOffset(section_height, k, line_spacing)
                    next == [status |-> "ok",
                             img |-> copy_image(r.img, acc.img, 0, y),
                             smallest_start |-> IF r.start < acc.smallest_start
                                                THEN r.start ELSE acc.smallest_start,
                             biggest_end |-> IF r.start + r.width > acc.biggest_end
                                             THEN r.start + r.width ELSE acc.biggest_end,
                             offsets |-> Append(acc.offsets, y)]
                IN  ComposeLines(next, k + 1, lines, font, width, section_height,
                                 background_color, text_color, text_align,
                                 line_spacing)


\* (height - line_spacing * (nlines - 1)) / nlines on u32, when the
\* subtraction does not panic
SectionHeight(height, line_spacing, nlines) ==
    LET spaces == line_spacing * (nlines - 1)
    IN  DivU32(SubU32(height, spaces), nlines)

\* Option<DynamicImage>
NoGradient == << >>
Some(x) == << x >>

\* returns [status, img, start, width, section_height, offsets]; status is
\* "ok", "err" (the Err of an unreadable font), "panic" (arithmetic
\* overflow) or "abort" (allocation failure)
generate_text_image(lines, font, gradient, width, height, background_color, text_color, text_align, line_spacing, overflow_checks) ==
    LET nlines == Len(lines)
    IN  IF nlines = 1
        THEN LET r == generate_text_image_single_line(lines[1], FontReadOk(font, 1),
                          width, height, background_color, text_color, text_align)
             IN  IF r.status # "ok"
                 THEN [status |-> r.status, section_height |-> height,
                       offsets |-> << >>]
                 ELSE [status |-> "ok",
                       img |-> IF gradient = NoGradient THEN r.img
                               ELSE apply_gradient(r.img, gradient[1]),
                       start |-> r.start, width |-> r.width,
                       section_height |-> height, offsets |-> <<0>>]
        ELSE LET section_height == SectionHeight(height, line_spacing, nlines)
             IN  IF SubU32Panics(height, line_spacing * (nlines - 1), overflow_checks)
                 THEN [status |-> "panic"]
                 ELSE IF TooLarge(width, height)
                 THEN [status |-> "abort", section_height |-> section_height,
                       offsets |-> << >>]
                 ELSE
                    LET acc0 == [status |-> "ok",
                                 img |-> RgbaImage_new(width, height),
                                 smallest_start |-> width - 1,
                                 biggest_end |-> 0,
                                 offsets |-> << >>]
                        acc == ComposeLines(acc0, 0, lines, font, width,
                                   section_height, background_color, text_color,
                                   text_align, line_spacing)
                    IN  IF acc.status # "ok"
                        THEN [status |-> acc.status,
                              section_height |-> section_height,
                              offsets |-> acc.offsets]
                        ELSE [status |-> "ok",
                              img |-> IF gradient = NoGradient THEN acc.img
                                      ELSE apply_gradient(acc.img, gradient[1]),
                              start |-> acc.smallest_start,
                              width |-> acc.biggest_end - acc.smallest_start,
                              section_height |-> section_height,
                              offsets |-> acc.offsets]

(*************************** SpecCompose ***********************************)
\* what the font engine can make of a line: an empty bounding box has no
\* ink to crop, a non-empty one is at least one column wide
Lines(max_width, max_height) ==
    { l \in [genwidth : 0 .. max_width, genheight : 0 .. max_height,
             cropwidth : 0 .. max_width] :
        /\ l.genheight = 0 => l.cropwidth = l.genwidth
        /\ l.genheight > 0 => (1 <= l.cropwidth /\ l.cropwidth <= l.genwidth) }

\* the sequences of 1 .. max_len elements of set
RECURSIVE SeqsUpTo(_, _)
SeqsUpTo(set, max_len) ==
    IF max_len = 0 THEN {}
    ELSE LET shorter == SeqsUpTo(set, max_len - 1)
         IN  { <<e>> : e \in set } \cup
             { Append(q, e) : q \in { q1 \in shorter : Len(q1) = max_len - 1 }, e \in set }
             \cup shorter

BackgroundColor == <<0, 0, 0, 255>>
TextColor == <<255, 0, 0, 0>>

\* the lines the composition checks run over: an empty one, one narrower
\* than high, one wider than high that crop_width_right cuts
ComposeLineSet ==
    { [genwidth |-> 0, genheight |-> 0, cropwidth |-> 0],
      [genwidth |-> 1, genheight |-> 2, cropwidth |-> 1],
      [genwidth |-> 4, genheight |-> 1, cropwidth |-> 3] }

InitCompose ==
    /\ pc = "compose_call"
    /\ \E lines \in SeqsUpTo(ComposeLineSet, MaxComposeLines),
          width \in 1 .. MaxComposeWidth, height \in 1 .. MaxComposeHeight,
          line_spacing \in 0 .. MaxSpacing, overflow_checks \in BOOLEAN,
          text_align \in TextAligns :
          args = [lines |-> lines, font |-> FontOk, gradient |-> NoGradient,
                  width |-> width, height |-> height,
                  background_color |-> BackgroundColor, text_color |-> TextColor,
                  text_align |-> text_align, line_spacing |-> line_spacing,
                  overflow_checks |-> overflow_checks]
    /\ ret = None
    /\ NoProgram

CallCompose ==
    /\ pc = "compose_call"
    /\ ret' = generate_text_image(args.lines, args.font, args.gradient, args.width,
                  args.height, args.background_color, args.text_color,
                  args.text_align, args.line_spacing, args.overflow_checks)
    /\ pc' = "compose_done"
    /\ UNCHANGED <<args, prog>>

NextCompose == CallCompose

SpecCompose == InitCompose /\ [][NextCompose]_vars

\* C8: in generate_text_image with N > 1 lines, spacing S and total height
\* H, every line's section height is floor((H - S*(N-1)) / N), line k is
\* composited at vertical offset k * (sectionHeight + S), and the vertical
\* slots [k*(sectionHeight+S), k*(sectionHeight+S) + sectionHeight) of
\* distinct lines never overlap and all lie inside [0, H).
C8_SectionsFloorAndDisjoint ==
    (pc = "compose_done" /\ Len(args.lines) > 1 /\ ret.status # "panic") =>
        LET N == Len(args.lines)
            S == args.line_spacing
            H == args.height
            sh == ret.section_height
            Slot(k) == { y \in -1 .. (H + 1) : k * (sh + S) <= y /\ y < k * (sh + S) + sh }
        IN  /\ sh = (H - S * (N - 1)) \div N
            /\ \A k \in 0 .. (Len(ret.offsets) - 1) : ret.offsets[k + 1] = k * (sh + S)
            /\ \A j, k \in 0 .. (N - 1) : j # k => Slot(j) \cap Slot(k) = {}
            /\ \A k \in 0 .. (N - 1) : Slot(k) \subseteq 0 .. (H - 1)

\* what generate_text_image_single_line returns for line k (1-based) of the
\* text, drawn into its section
C18_Line(k) ==
    generate_text_image_single_line(args.lines[k], TRUE, args.width,
        ret.section_height, args.background_color, args.text_color,
        args.text_align)

\* C18: for a text of several lines generate_text_image reports (start,
\* width) with start the smallest start of a line and start + width the
\* biggest end (start + width) of a line, so that the reported box holds the
\* interval every line was placed in, and width is never negative.
C18_BoxIsMinStartMaxEnd ==
    (pc = "compose_done" /\ Len(args.lines) > 1 /\ ret.status = "ok") =>
        LET ks == 1 .. Len(args.lines)
            end == ret.start + ret.width
        IN  /\ \E k \in ks : C18_Line(k).start = ret.start
            /\ \E k \in ks : C18_Line(k).start + C18_Line(k).width = end
            /\ \A k \in ks :
                   /\ ret.start <= C18_Line(k).start
                   /\ C18_Line(k).start + C18_Line(k).width <= end
            /\ ret.width >= 0

(*************************** SpecFit ***************************************)
\* a source raster of any size, empty ones included, inked all over, into a
\* box of any size that is at least one column wide
InitFit ==
    /\ pc = "fit_call"
    /\ \E width_img \in 0 .. MaxFitImg, height_img \in 0 .. MaxFitImg,
          width \in 1 .. MaxFitBox, height \in 0 .. MaxFitBox,
          text_align \in TextAligns :
          args = [img |-> LineRaster(width_img, height_img, TextColor),
                  width |-> width, height |-> height, text_align |-> text_align,
                  resampled |-> LineRaster(width, height, TextColor)]
    /\ ret = None
    /\ NoProgram

CallFit ==
    /\ pc = "fit_call"
    /\ ret' = resize_image_to_fit(args.img, args.width, args.height,
                                  args.text_align, args.resampled)
    /\ pc' = "fit_done"
    /\ UNCHANGED <<args, prog>>

NextFit == CallFit

SpecFit == InitFit /\ [][NextFit]_vars

\* the source is wider in aspect than the box: width_img / height_img >
\* width / height on f32
C17_Wider ==
    IF args.img.height = 0 THEN args.img.width > 0 /\ args.height > 0
    ELSE IF args.height = 0 THEN FALSE
    ELSE args.img.width * args.height > args.width * args.img.height

\* the pixels of the returned raster that are not (0, 0, 0, 0)
C17_Ink ==
    { p \in Coords(ret[1].width, ret[1].height) : ret[1].px[p] # <<0, 0, 0, 0>> }

\* C17: resize_image_to_fit, when the source is not wider in aspect than
\* the box, scales it to the height of the box and places it at start 0 for
\* LEFT, box width minus placed width for RIGHT and the floor of half the
\* leftover width for CENTER; when the source is wider in aspect it scales
\* it to the width of the box, start 0, centred vertically; in every case
\* start + placed width <= box width.
C17_FitPlacement ==
    pc = "fit_done" =>
        LET start == ret[2]
            placed == ret[3]
            new_height == (args.img.height * args.width) \div args.img.width
            top == (args.height - new_height) \div 2
        IN  /\ ret[1].width = args.width /\ ret[1].height = args.height
            /\ start >= 0 /\ placed >= 0
            /\ start + placed <= args.width
            /\ IF C17_Wider
               THEN /\ placed = args.width
                    /\ start = 0
                    /\ C17_Ink = (0 .. (args.width - 1))
                                     \X (top .. (top + new_height - 1))
               ELSE /\ args.img.height > 0 =>
                           placed = (args.img.width * args.height)
                                        \div args.img.height
                    /\ start = CASE args.text_align = "LEFT" -> 0
                                 [] args.text_align = "RIGHT" -> args.width - placed
                                 [] args.text_align = "CENTER" ->
                                        (args.width - placed) \div 2
                    /\ C17_Ink = (start .. (start + placed - 1))
                                     \X (0 .. (args.height - 1))

C17_Witness ==
    /\ pc = "fit_done"
    /\ args.img.width = 1 /\ args.img.height = 2
    /\ args.width = 4 /\ args.height = 4
    /\ args.text_align = "RIGHT"
    /\ ret[2] = 2 /\ ret[3] = 2
    /\ ret[1].px[<<1, 0>>] = <<0, 0, 0, 0>>
    /\ ret[1].px[<<2, 3>>] = TextColor

(*************************** is_text_to_animate ****************************)
\* get_text_ratio: genwidth as f32 / genheight as f32, of the raster before
\* it is cropped
get_text_ratio(line, height) ==
    LET m == Measure(line, height)
    IN  Ratio(m.genwidth, m.genheight)

LocalShouldAnimate_ge(text_ratio, dmd_ratio) == FGe(text_ratio, Times3(dmd_ratio))

\* text_ratio > dmd_ratio * accepable_ratio
LocalShouldAnimate(text_ratio, dmd_ratio) == FGt(text_ratio, Times3(dmd_ratio))

\* the loop of is_text_to_animate over the lines, from line k (0-based)
RECURSIVE DecideLines(_, _, _, _, _, _, _)
DecideLines(acc, k, lines, font, section_height, dmd_ratio, force_moving_text) ==
    IF k >= Len(lines) THEN acc
    ELSE IF ~FontReadOk(font, k + 1) THEN [acc EXCEPT !.status = "err"]
    ELSE
        LET text_ratio == get_text_ratio(lines[k + 1], section_height)
            local_should_animate == LocalShouldAnimate(text_ratio, dmd_ratio)
            local_animation_new_width == MulRatioU32(section_height, text_ratio)
            next == IF local_should_animate \/ force_moving_text
                    THEN [status |-> "ok",
                          should_animate |-> TRUE,
                          animation_new_width |->
                              IF GtU32(local_animation_new_width,
                                       acc.animation_new_width)
                              THEN local_animation_new_width
                              ELSE acc.animation_new_width]
                    ELSE acc
        IN  DecideLines(next, k + 1, lines, font, section_height, dmd_ratio,
                        force_moving_text)

\* returns [status, should_animate, animation_new_width]
is_text_to_animate(lines, font, line_spacing, dmd_width, dmd_height, force_moving_text, overflow_checks) ==
    LET nlines == Len(lines)
        all_spaces == line_spacing * (nlines - 1)
        section_height == SectionHeight(dmd_height, line_spacing, nlines)
        dmd_ratio == Ratio(dmd_width, dmd_height)
        acc0 == [status |-> "ok", should_animate |-> FALSE,
                 animation_new_width |-> dmd_width]
    IN  IF SubU32Panics(dmd_height, all_spaces, overflow_checks)
        THEN [status |-> "panic"]
        ELSE DecideLines(acc0, 0, lines, font, section_height, dmd_ratio,
                         force_moving_text)

(********************** get_dmd_animation_from_text ************************)
ScrollOffset_ignores_start(npixel, start, real_width) == npixel - real_width

\* the x offset at which a scroll frame places the composed raster
ScrollOffset(npixel, start, real_width) == npixel - start - real_width

\* the frame pushed for npixel
ScrollFrame(dyn_img, npixel, start, real_width, dmd_width, dmd_height) ==
    LET new_img == copy_image(dyn_img, RgbaImage_new(dmd_width, dmd_height),
                              ScrollOffset(npixel, start, real_width), 0)
    IN  image2dmdimage(new_img, "CENTER", dmd_width, dmd_height, new_img)

FrameCount_plus_one(dmd_width, real_width) ==
    dmd_width + SubU32(real_width, dmd_width) + dmd_width + 1

\* dmd_width + (real_width - dmd_width) + dmd_width, wrapping
FrameCount(dmd_width, real_width) ==
    dmd_width + SubU32(real_width, dmd_width) + dmd_width

\* get_dmd_animation_from_text once generate_text_image has returned g: the
\* loop for npixel in (0..dmd_width + (real_width - dmd_width) + dmd_width).rev()
ScrollFrames(g, dmd_width, dmd_height, speed, overflow_checks) ==
    IF g.status # "ok" THEN [status |-> g.status]
    ELSE IF SubU32Panics(g.width, dmd_width, overflow_checks)
    THEN [status |-> "panic", start |-> g.start, real_width |-> g.width]
    ELSE LET count == FrameCount(dmd_width, g.width)
         IN  [status |-> "ok",
              frames_dmd |-> [i \in 1 .. count |->
                                ScrollFrame(g.img, count - i, g.start, g.width,
                                            dmd_width, dmd_height)],
              frames_duration |-> [i \in 1 .. count |-> speed],
              start |-> g.start,
              real_width |-> g.width,
              img |-> g.img]

\* returns [status, frames_dmd, frames_duration, start, real_width, img]
get_dmd_animation_from_text(lines, font, gradient, dmd_width, dmd_height, text_width, background_color, text_color, text_align, line_spacing, speed, overflow_checks) ==
    ScrollFrames(generate_text_image(lines, font, gradient, text_width, dmd_height,
                     background_color, text_color, text_align, line_spacing,
                     overflow_checks),
                 dmd_width, dmd_height, speed, overflow_checks)

(****************************** the stream *********************************)
\* "DMDStream"
Keyword == << 68, 77, 68, 83, 116, 114, 101, 97, 109 >>

get_header(width, height, layer, nbytes) ==
    LET version == 1
        mode == 3
        buffered == IF layer = "MAIN" THEN 1 ELSE 0
        disconnect_others == IF layer = "MAIN" THEN 1 ELSE 0
    IN  Keyword \o << 0 >> \o << version >> \o to_be_bytes32(mode)
        \o to_be_bytes16(width) \o to_be_bytes16(height)
        \o << buffered, disconnect_others >> \o to_be_bytes32(nbytes)

\* what the stream does with the writes of one send_frame
IoOutcomes == {"ok", "header_fails", "payload_fails"}

\* send_frame: write_all(header), write_all(im), flush; the stream after it
send_frame(client, header, im, io) ==
    CASE io = "ok" -> client \o << [kind |-> "header", bytes |-> header],
                                   [kind |-> "payload", bytes |-> im] >>
      [] io = "header_fails" -> client
      [] io = "payload_fails" -> client \o << [kind |-> "header", bytes |-> header] >>

(*************************** send_image_text *******************************)
\* the reads of the font file a call with nlines lines can see fail
FontOutcomes(nlines) == {FontOk} \cup (0 .. (nlines - 1))

FinalShouldAnimate_fixed_wins(should_animate, force_moving_text, force_fixed_text) ==
    IF force_fixed_text THEN FALSE ELSE should_animate

\* "some options forces"
FinalShouldAnimate(should_animate, force_moving_text, force_fixed_text) ==
    IF force_moving_text = FALSE /\ force_fixed_text THEN FALSE ELSE should_animate

\* what the font engine makes of the lines of the text checks: an empty
\* line, a narrow one, two that sit exactly on the scroll threshold of a
\* display of the model, and one above the thresholds that crop_width_right
\* cuts
EmptyLine == [genwidth |-> 0, genheight |-> 0, cropwidth |-> 0]
NarrowLine == [genwidth |-> 1, genheight |-> 1, cropwidth |-> 1]
ThreeLine == [genwidth |-> 3, genheight |-> 1, cropwidth |-> 3]
SixLine == [genwidth |-> 6, genheight |-> 1, cropwidth |-> 6]
WideLine == [genwidth |-> 7, genheight |-> 1, cropwidth |-> 4]
\* a line of spaces: the advances give it a width, no glyph has a bounding
\* box to give it a height
SpaceLine == [genwidth |-> 2, genheight |-> 0, cropwidth |-> 2]

\* the texts of the text checks: every single line, and texts of two and
\* three lines
Texts ==
    { <<EmptyLine>>, <<NarrowLine>>, <<ThreeLine>>, <<SixLine>>, <<WideLine>>,
      <<SpaceLine>>,
      <<NarrowLine, WideLine>>, <<WideLine, NarrowLine>>, <<NarrowLine, NarrowLine>>,
      <<ThreeLine, NarrowLine>>, <<SixLine, EmptyLine>>,
      <<NarrowLine, ThreeLine, WideLine>> }

Speeds == {5, 30}

\* what send_image_text returns when a step fails: Err("Unable to read
\* font") for status "err"; a panic or an abort returns nothing
Failure(status) ==
    [status |-> status,
     value |-> IF status = "err" THEN "Unable to read font" ELSE ""]

\* Err(e.to_string()) of the io::Error of send_frame
IoFailure == [status |-> "err", value |-> "io::Error"]

\* main: the display, the header computed once, the text to send
Init ==
    /\ pc = "send_image_text"
    /\ \E dmd_width \in 1 .. MaxTextDmdWidth, dmd_height \in 1 .. MaxTextDmdHeight,
          lines \in Texts,
          line_spacing \in 0 .. MaxSpacing, text_align \in TextAligns,
          force_moving_text \in BOOLEAN, force_fixed_text \in BOOLEAN,
          speed \in Speeds, once \in BOOLEAN :
          args = [dmd_width |-> dmd_width, dmd_height |-> dmd_height,
                  header |-> get_header(dmd_width % U16, dmd_height % U16, "MAIN",
                                        get_dmd_buffer_size(dmd_width, dmd_height)),
                  lines |-> lines, gradient |-> NoGradient,
                  text_color |-> TextColor, background_color |-> BackgroundColor,
                  text_align |-> text_align, line_spacing |-> line_spacing,
                  force_moving_text |-> force_moving_text,
                  force_fixed_text |-> force_fixed_text,
                  speed |-> speed, once |-> once]
    /\ ret = None
    /\ NoProgram

\* send_image_text up to "some options forces"
Decide ==
    /\ pc = "send_image_text"
    /\ \E font \in FontOutcomes(Len(args.lines)), overflow_checks \in BOOLEAN :
          LET d == is_text_to_animate(args.lines, font, args.line_spacing,
                       args.dmd_width, args.dmd_height, args.force_moving_text,
                       overflow_checks)
              wrapped == args.dmd_height < args.line_spacing * (Len(args.lines) - 1)
          IN  IF d.status # "ok"
              THEN /\ pc' = "done"
                   /\ ret' = Failure(d.status)
                   /\ locals' = [locals EXCEPT !.fonts = Append(@, font)]
              ELSE /\ pc' = "decided"
                   /\ locals' = [locals EXCEPT
                          !.fonts = Append(@, font),
                          !.computed = d.should_animate,
                          !.new_width = IF d.should_animate
                                        THEN d.animation_new_width
                                        ELSE args.dmd_width,
                          !.should_animate =
                              FinalShouldAnimate(d.should_animate,
                                  args.force_moving_text, args.force_fixed_text),
                          !.builds = IF wrapped THEN {FALSE} ELSE BOOLEAN]
                   /\ UNCHANGED ret
    /\ UNCHANGED <<args, wire, frames_dmd, frames_duration, n, played>>

\* send_image_text once get_dmd_animation_from_text has returned a
AnimationGenerated(a, font) ==
    IF a.status # "ok"
    THEN /\ pc' = "done"
         /\ ret' = Failure(a.status)
         /\ locals' = [locals EXCEPT !.path = "animation",
                                     !.fonts = Append(@, font)]
         /\ UNCHANGED <<frames_dmd, frames_duration, n>>
    ELSE /\ pc' = "play_animation"
         /\ frames_dmd' = a.frames_dmd
         /\ frames_duration' = a.frames_duration
         /\ n' = 0
         /\ locals' = [locals EXCEPT !.path = "animation", !.built = TRUE,
                                     !.fonts = Append(@, font),
                                     !.start = a.start,
                                     !.real_width = a.real_width,
                                     !.img = a.img]
         /\ UNCHANGED ret

\* send_image_text, should_animate: the frames are generated, then played
RenderAnimation ==
    /\ pc = "decided"
    /\ locals.should_animate
    /\ \E font \in FontOutcomes(Len(args.lines)), overflow_checks \in locals.builds :
          AnimationGenerated(
              get_dmd_animation_from_text(args.lines, font, args.gradient,
                  args.dmd_width, args.dmd_height, locals.new_width,
                  args.background_color, args.text_color, args.text_align,
                  args.line_spacing, args.speed, overflow_checks),
              font)
    /\ UNCHANGED <<args, wire, played>>

\* send_image_text once generate_text_image has returned g for the static
\* frame: image2dmdimage, send_frame
StaticGenerated_sends_on_error(g, io) ==
    /\ wire' = send_frame(wire, args.header,
                   IF g.status # "ok"
                   THEN [i \in 1 .. get_dmd_buffer_size(args.dmd_width,
                                                        args.dmd_height) |-> 0]
                   ELSE image2dmdimage(g.img, args.text_align, args.dmd_width,
                                       args.dmd_height, g.img),
                   io)
    /\ ret' = IF g.status # "ok" THEN Failure(g.status)
              ELSE IF io = "ok" THEN [status |-> "ok", value |-> FALSE]
              ELSE IoFailure

StaticGenerated(g, io) ==
    IF g.status # "ok"
    THEN /\ ret' = Failure(g.status)
         /\ UNCHANGED wire
    ELSE /\ wire' = send_frame(wire, args.header,
                        image2dmdimage(g.img, args.text_align, args.dmd_width,
                                       args.dmd_height, g.img),
                        io)
         /\ ret' = IF io = "ok" THEN [status |-> "ok", value |-> FALSE]
                   ELSE IoFailure

\* send_image_text, not should_animate: one frame is rendered and sent
RenderStatic ==
    /\ pc = "decided"
    /\ ~locals.should_animate
    /\ \E font \in FontOutcomes(Len(args.lines)), overflow_checks \in locals.builds,
          io \in IoOutcomes :
          /\ StaticGenerated(
              generate_text_image(args.lines, font, args.gradient,
                  args.dmd_width, args.dmd_height, args.background_color,
                  args.text_color, args.text_align, args.line_spacing,
                  overflow_checks),
              io)
          /\ locals' = [locals EXCEPT !.path = "static", !.fonts = Append(@, font)]
    /\ pc' = "done"
    /\ UNCHANGED <<args, frames_dmd, frames_duration, n, played>>

\* play_animation: frame n is sent, then the thread sleeps frames_duration[n]
PlayFrame ==
    /\ pc = "play_animation"
    /\ n < Len(frames_dmd)
    /\ Len(wire) < MaxChunks
    /\ \E io \in IoOutcomes :
          /\ wire' = send_frame(wire, args.header, frames_dmd[n + 1], io)
          /\ IF io = "ok"
             THEN /\ played' = Append(played, [frame |-> n,
                                               slept |-> frames_duration[n + 1]])
                  /\ n' = n + 1
                  /\ UNCHANGED <<pc, ret>>
             ELSE /\ pc' = "done"
                  /\ ret' = IoFailure
                  /\ UNCHANGED <<n, played>>
    /\ UNCHANGED <<args, frames_dmd, frames_duration, locals>>

PassEnded_ignores_once(once) ==
    /\ pc' = "done"
    /\ ret' = [status |-> "ok", value |-> TRUE]
    /\ UNCHANGED n

\* play_animation after the for loop: if once { return Ok(()) }, else the
\* loop starts over with n = 0
PassEnded(once) ==
    IF once
    THEN /\ pc' = "done"
         /\ ret' = [status |-> "ok", value |-> TRUE]
         /\ UNCHANGED n
    ELSE /\ n' = 0
         /\ UNCHANGED <<pc, ret>>

\* play_animation: after the last frame
PlayEnd ==
    /\ pc = "play_animation"
    /\ n = Len(frames_dmd)
    /\ PassEnded(args.once)
    /\ UNCHANGED <<args, wire, frames_dmd, frames_duration, played, locals>>

Next == Decide \/ RenderAnimation \/ RenderStatic \/ PlayFrame \/ PlayEnd

Spec == Init /\ [][Next]_vars

\* C4: whenever get_dmd_animation_from_text returns its frames, it returns
\* exactly dispW + (realWidth - dispW) + dispW of them, realWidth being the
\* ink width generate_text_image reported, and a list of durations of the
\* same length, every entry of which is the speed the caller gave.
C4_FrameCountAndDurations ==
    locals.built =>
        /\ Len(frames_dmd) =
               args.dmd_width + (locals.real_width - args.dmd_width) + args.dmd_width
        /\ Len(frames_duration) = Len(frames_dmd)
        /\ \A i \in 1 .. Len(frames_duration) : frames_duration[i] = args.speed

C4_Witness ==
    /\ locals.built
    /\ args.dmd_width = 1
    /\ locals.real_width = 4
    /\ args.speed = 5
    /\ Len(frames_dmd) = 5
    /\ frames_duration = <<5, 5, 5, 5, 5>>

\* the display columns on which frame i (1 the first generated) shows a
\* column of the ink region [start, start + real_width) of the composed raster
InkColumnsShown(i) ==
    LET off == ScrollOffset(Len(frames_dmd) - i, locals.start, locals.real_width)
    IN  { c \in 0 .. (args.dmd_width - 1) :
            \E x \in locals.start .. (locals.start + locals.real_width - 1) :
                x + off = c }

Blank(frame) == \A j \in 1 .. Len(frame) : frame[j] = 0

\* C5: when realWidth > dispW, the first and the last frame generated by
\* get_dmd_animation_from_text are both fully blank: neither places a column
\* of the ink region [start, start + realWidth) of the composed raster on a
\* display column 0 .. dispW-1, and every byte of both is zero.
C5_FirstAndLastFrameBlank ==
    (locals.built /\ locals.real_width > args.dmd_width) =>
        /\ InkColumnsShown(1) = {}
        /\ Blank(frames_dmd[1])
        /\ InkColumnsShown(Len(frames_dmd)) = {}
        /\ Blank(frames_dmd[Len(frames_dmd)])

\* the section height is_text_to_animate measures the lines at: any height
\* but 0 when the subtraction wrapped
C6_SectionHeight ==
    LET nlines == Len(args.lines)
        all_spaces == args.line_spacing * (nlines - 1)
    IN  IF all_spaces <= args.dmd_height
        THEN (args.dmd_height - all_spaces) \div nlines
        ELSE 1

\* the ratio width / height measured for the line is strictly greater than
\* 3 * dmd_width / dmd_height
C6_OverThreshold(line) ==
    LET m == Measure(line, C6_SectionHeight)
    IN  IF m.genheight = 0 THEN m.genwidth > 0
        ELSE m.genwidth * args.dmd_height > 3 * args.dmd_width * m.genheight

C6_SomeLineOver ==
    \E k \in 1 .. Len(args.lines) : C6_OverThreshold(args.lines[k])

\* C6: with forcing off, is_text_to_animate marks the text for scrolling if
\* and only if at least one line has a measured ratio strictly greater than
\* displayAspectRatio * 3.0; a line whose ratio is exactly that threshold
\* does not mark it.
C6_StrictThreshold ==
    (pc = "decided" /\ ~args.force_moving_text) =>
        (locals.computed <=> C6_SomeLineOver)

C6_Witness ==
    /\ pc = "decided"
    /\ ~args.force_moving_text
    /\ args.lines = <<ThreeLine>>
    /\ args.dmd_width = 1
    /\ args.dmd_height = 1
    /\ ~locals.computed

\* C7: the path send_image_text takes obeys the force flags: with
\* moving_text set the animation path, also when fixed_text is set too; with
\* fixed_text set and moving_text clear the static path, also when a line is
\* over the threshold; with neither set the animation path exactly when
\* some line is over the threshold.
C7_ForceFlags ==
    locals.path # "none" =>
        /\ args.force_moving_text => locals.path = "animation"
        /\ (~args.force_moving_text /\ args.force_fixed_text) =>
               locals.path = "static"
        /\ (~args.force_moving_text /\ ~args.force_fixed_text) =>
               (locals.path = "animation" <=> C6_SomeLineOver)

C7_Witness ==
    /\ locals.path = "animation"
    /\ args.force_moving_text
    /\ args.force_fixed_text
    /\ ~C6_SomeLineOver
    /\ locals.built

\* the byte count field of a header: its last four bytes, big-endian
HeaderByteCount(header) ==
    ((header[22] * 256 + header[23]) * 256 + header[24]) * 256 + header[25]

\* the frames on the stream: a header followed by its payload
FramesWritten ==
    { i \in 1 .. (Len(wire) - 1) :
        wire[i].kind = "header" /\ wire[i + 1].kind = "payload" }

\* C10: for every frame send_frame writes, the byte count field of the
\* header differs from the number of payload bytes written after it.
C10_HeaderCountDiffersFromPayload ==
    \A i \in FramesWritten :
        HeaderByteCount(wire[i].bytes) # Len(wire[i + 1].bytes)

\* the spacing between the lines is more than the display is high: the
\* subtraction of is_text_to_animate and generate_text_image underflows
SpacingUnderflows ==
    args.dmd_height < args.line_spacing * (Len(args.lines) - 1)

FontError(r) == r.status = "err" /\ r.value = "Unable to read font"

\* C11: when a read of the font fails, the whole call fails with the
\* error and no partial output: whether the read fails in
\* is_text_to_animate or in generate_text_image, for the first line or after
\* earlier lines rendered, send_image_text returns Err("Unable to read font")
\* and no frame was generated or sent; the one exception is the call that
\* the underflowing spacing stops (panic, failed allocation) before the
\* failing read is made. A call that returns the font error has sent nothing.
C11_FontFailureFailsWholeCall ==
    /\ (Len(locals.fonts) >= 1 /\ locals.fonts[1] # FontOk) =>
           /\ pc = "done"
           /\ wire = << >> /\ frames_dmd = << >> /\ locals.path = "none"
           /\ FontError(ret) \/ (SpacingUnderflows /\ ret.status = "panic")
    /\ (Len(locals.fonts) = 2 /\ locals.fonts[2] # FontOk) =>
           /\ pc = "done"
           /\ wire = << >> /\ frames_dmd = << >> /\ ~locals.built
           /\ FontError(ret) \/ (SpacingUnderflows /\ ret.status = "abort")
    /\ (pc = "done" /\ FontError(ret)) =>
           /\ wire = << >>
           /\ \E i \in 1 .. Len(locals.fonts) : locals.fonts[i] # FontOk

C11_Witness ==
    /\ pc = "done"
    /\ args.lines = <<NarrowLine, NarrowLine>>
    /\ args.dmd_height = 2
    /\ args.line_spacing = 0
    /\ locals.fonts = <<FontOk, 1>>
    /\ locals.path = "static"
    /\ FontError(ret)
    /\ wire = << >>

\* C12: play_animation sends the frames front to back, frame 0 first, and
\* pauses frame i's duration after sending frame i; after the last frame it
\* starts over at frame 0; with once set it returns Ok after one full pass
\* in which every frame was sent exactly once, and with once clear it never
\* returns Ok.
C12_FrontToBackOncePass ==
    LET count == Len(frames_dmd)
        sent == { i \in 1 .. (Len(wire) - 1) :
                    wire[i].kind = "header" /\ wire[i + 1].kind = "payload" }
    IN  locals.built =>
            /\ \A j \in 1 .. Len(played) :
                   /\ played[j].frame = (j - 1) % count
                   /\ played[j].slept = frames_duration[played[j].frame + 1]
                   /\ 2 * j - 1 \in sent
                   /\ wire[2 * j].bytes = frames_dmd[played[j].frame + 1]
            /\ (pc = "done" /\ ret.status = "ok") =>
                   /\ args.once
                   /\ ret.value = TRUE
                   /\ Len(played) = count
                   /\ \A i \in 0 .. (count - 1) :
                          Cardinality({ j \in 1 .. Len(played) :
                                          played[j].frame = i }) = 1
            /\ args.once => Len(played) <= count

C12_Witness ==
    /\ locals.built
    /\ ~args.once
    /\ Len(frames_dmd) = 2
    /\ Len(played) = 3
    /\ played[3].frame = 0
    /\ frames_dmd[1] # frames_dmd[2]

\* C13: is_text_to_animate and generate_text_image return a success value or
\* a string failure for every input and never abort, also when
\* line_spacing * (N - 1) is as much as the available height or more: a call
\* of send_image_text that ends in is_text_to_animate, or in the static
\* path after generate_text_image, ends with Ok or Err.
C13_NeverAborts ==
    (pc = "done" /\ locals.path \in {"none", "static"}) =>
        ret.status \in {"ok", "err"}

\* the two bytes frame holds for display pixel (x, y)
FramePixel(frame, x, y) ==
    << frame[(y * args.dmd_width + x) * 2 + 1],
       frame[(y * args.dmd_width + x) * 2 + 2] >>

\* the two bytes of pixel (x, y) of the composed raster, (0, 0) outside it
RasterPixel(x, y) ==
    IF 0 <= x /\ x < locals.img.width /\ 0 <= y /\ y < locals.img.height
    THEN LET px == locals.img.px[<<x, y>>]
         IN  to_be_bytes16(rgb888_to_rgb565(px[1], px[2], px[3]))
    ELSE <<0, 0>>

\* C15: the frames of get_dmd_animation_from_text come in the order k =
\* count-1 down to 0, frame k showing the composed raster at horizontal
\* offset k - start - realWidth and vertical offset 0; so every frame shows
\* the picture of the frame before it one display column further left, and
\* in frame k the left edge of the ink (raster column start) is at display
\* column k - realWidth, whatever start is, with nothing left of it. (The
\* frames are looked at when get_dmd_animation_from_text has returned them,
\* before the first is sent.)
C15_FramesShiftLeftByOne ==
    (locals.built /\ wire = << >>) =>
        LET count == Len(frames_dmd)
            xs == 0 .. (args.dmd_width - 1)
            ys == 0 .. (args.dmd_height - 1)
        IN  /\ \A i \in 1 .. count : \A x \in xs, y \in ys :
                  LET k == count - i
                  IN  /\ FramePixel(frames_dmd[i], x, y) =
                             RasterPixel(x - (k - locals.start - locals.real_width), y)
                      /\ x = k - locals.real_width =>
                             FramePixel(frames_dmd[i], x, y) =
                                 RasterPixel(locals.start, y)
                      /\ x < k - locals.real_width =>
                             FramePixel(frames_dmd[i], x, y) = <<0, 0>>
            /\ \A i \in 1 .. (count - 1) : \A x \in xs, y \in ys :
                  x + 1 \in xs =>
                      FramePixel(frames_dmd[i + 1], x, y) =
                          FramePixel(frames_dmd[i], x + 1, y)

C15_Witness ==
    /\ locals.built
    /\ args.dmd_width = 2
    /\ locals.start = 1
    /\ locals.real_width = 4
    /\ Len(frames_dmd) = 6
    /\ FramePixel(frames_dmd[1], 1, 0) = <<248, 0>>
    /\ FramePixel(frames_dmd[1], 0, 0) = <<0, 0>>
    /\ FramePixel(frames_dmd[2], 0, 0) = <<248, 0>>
    /\ Blank(frames_dmd[6])
    /\ wire = << >>

\* a <= b on u32
C16_LeU32(a, b) ==
    IF (a < 0) = (b < 0) THEN a <= b ELSE b < 0

\* the display width and sectionHeight * ratio, as (f32) as u32, of the
\* lines sel of the text
C16_Widths(sel) ==
    LET section_height == SectionHeight(args.dmd_height, args.line_spacing,
                                        Len(args.lines))
    IN  { MulRatioU32(section_height,
                      get_text_ratio(args.lines[k], section_height)) : k \in sel }
        \cup {args.dmd_width}

C16_IsMax(w, set) == w \in set /\ \A c \in set : C16_LeU32(c, w)

C16_OverWideLines ==
    { k \in 1 .. Len(args.lines) : C6_OverThreshold(args.lines[k]) }

\* C16, as claimed: the scroll canvas width is_text_to_animate returns is
\* the maximum of the display width and sectionHeight * (line ratio) over
\* the over-wide lines only; a line that is not over-wide never enlarges it,
\* and it is the display width when no line is over-wide.
C16_CanvasWidthOverWideOnly ==
    pc = "decided" => C16_IsMax(locals.new_width, C16_Widths(C16_OverWideLines))

\* C16, amended: the scroll canvas width is_text_to_animate returns is the
\* maximum of the display width and sectionHeight * (line ratio) over the
\* over-wide lines when scrolling is not forced on, and over all the lines
\* when it is forced on; with forcing off a line that is not over-wide never
\* enlarges it, and it is the display width when no line is over-wide.
C16_CanvasWidthOverWideOrForced ==
    pc = "decided" =>
        C16_IsMax(locals.new_width,
                  C16_Widths(IF args.force_moving_text
                             THEN 1 .. Len(args.lines)
                             ELSE C16_OverWideLines))

C16_Witness ==
    /\ pc = "decided"
    /\ args.lines = <<NarrowLine>>
    /\ args.dmd_width = 1 /\ args.dmd_height = 2
    /\ args.force_moving_text
    /\ C16_OverWideLines = {}
    /\ locals.new_width = 2

\* C20: whenever send_image_text takes the animation path, the ink width
\* real_width of the scroll canvas is at least dmd_width, so that
\* real_width - dmd_width in the frame range never underflows: the frames
\* are never built from a smaller real_width and the subtraction never
\* panics, scrolling forced on by moving_text included.
C20_RealWidthCoversDisplay ==
    locals.path = "animation" =>
        /\ ~(pc = "done" /\ ret.status = "panic")
        /\ locals.built => locals.real_width >= args.dmd_width

(********************* handle_clock, handle_countdown **********************)
\* the seconds of a minute: a format without seconds ("%H:%M") gives the
\* same text for all of them
SecondsPerMinute == 60

\* the text of the time now: the seconds since midnight with a format that
\* shows them, the minutes with one that does not
TimeText(seconds, with_seconds) ==
    IF with_seconds THEN seconds ELSE seconds \div SecondsPerMinute

\* (target_datetime - now).abs()
Delta(target, now) == IF target >= now THEN target - now ELSE now - target

\* localtime of handle_clock, countdown_str of handle_countdown
LoopText(mode, target, now, with_seconds) ==
    IF mode = "clock" THEN TimeText(now, with_seconds)
    ELSE TimeText(Delta(target, now), with_seconds)

\* what a call of send_image_text comes to, as Spec shows: Ok, Err (font,
\* stream) or a panic that ends the process
SendOutcomes == {"ok", "err", "panic"}

\* the times Local::now() can give when the loop is entered
StartTimes == {0, 57, 58, 59}

\* previous_txt = String::new()
NoText == -1

InitClock ==
    /\ pc = "loop"
    /\ \E mode \in {"clock", "countdown"}, with_seconds \in BOOLEAN,
          start \in StartTimes :
          /\ args = [mode |-> mode, with_seconds |-> with_seconds,
                     target |-> SecondsPerMinute, start |-> start]
          /\ locals = [previous_txt |-> NoText, now |-> start,
                       attempted |-> FALSE, failed_before |-> FALSE,
                       failed_now |-> FALSE, renders |-> 0]
    /\ ret = None
    /\ wire = << >>
    /\ frames_dmd = << >>
    /\ frames_duration = << >>
    /\ n = 0
    /\ played = << >>

\* the head of the loop: the text of now is computed and compared with
\* previous_txt
LoopHead ==
    /\ pc = "loop"
    /\ LET txt == LoopText(args.mode, args.target, locals.now, args.with_seconds)
       IN  IF locals.previous_txt # txt
           THEN /\ pc' = "send"
                /\ locals' = [locals EXCEPT !.previous_txt = txt,
                                            !.attempted = TRUE,
                                            !.renders = @ + 1,
                                            !.failed_before = locals.failed_before
                                                              \/ locals.failed_now,
                                            !.failed_now = FALSE]
           ELSE /\ pc' = "sleep"
                /\ locals' = [locals EXCEPT !.attempted = FALSE,
                                            !.failed_before = locals.failed_before
                                                              \/ locals.failed_now,
                                            !.failed_now = FALSE]
    /\ UNCHANGED <<args, ret, wire, frames_dmd, frames_duration, n, played>>

\* let _ = match send_image_text(...) { Ok(_) => {}, Err(e) => eprintln }
LoopSend ==
    /\ pc = "send"
    /\ \E outcome \in SendOutcomes :
          /\ ret' = [status |-> outcome]
          /\ pc' = IF outcome = "panic" THEN "aborted" ELSE "sleep"
          /\ locals' = [locals EXCEPT !.failed_now = outcome # "ok"]
    /\ UNCHANGED <<args, wire, frames_dmd, frames_duration, n, played>>

\* thread::sleep(Duration::from_millis(1000)): a second later, or more
LoopSleep ==
    /\ pc = "sleep"
    /\ locals.now - args.start < MaxClockSeconds
    /\ \E d \in {1, 2} :
          locals' = [locals EXCEPT !.now = @ + d]
    /\ pc' = "loop"
    /\ UNCHANGED <<args, ret, wire, frames_dmd, frames_duration, n, played>>

NextClock == LoopHead \/ LoopSend \/ LoopSleep

SpecClock == InitClock /\ [][NextClock]_vars

\* C19: in the clock and countdown modes a failed render or frame write
\* ends only the send it happens in: the loop goes on, and in every
\* iteration of the loop after a failure a new render is attempted.
C19_RendersEveryIterationAfterFailure ==
    /\ pc # "aborted"
    /\ (pc = "sleep" /\ locals.failed_before) => locals.attempted

====
